---- MODULE Spec2Model ----
(***************************************************************************)
(* Model of the Meridian cart store (src/js/cart.js): the cart persisted   *)
(* under the localStorage key 'meridian_cart', the operations exposed on   *)
(* window.MeridianCart, the sidebar buttons, and what each call reads,     *)
(* writes, notifies, renders and returns; with it the cart badge as        *)
(* cart.js and the badge updater of src/js/main.js set it.                 *)
(***************************************************************************)
EXTENDS Integers, Sequences, FiniteSets

\* ------------------------------------------------------------------ bounds
\* Longest cart the model explores.
MaxItems == 2
\* Largest quantity of an item the model explores.
MaxQty == 2
\* Least quantity of an item the model explores: a quantity below 1 comes
\* only from an add with a negative qty.
MinQty == 1 - MaxQty

\* ------------------------------------------------- JavaScript values (args)
\* A caller's argument: a string, a number or undefined (an omitted argument).
\* A number is a finite integer or Infinity; null is what JSON makes of a
\* number that is not finite.
Str(x) == [t |-> "str", n |-> 0, s |-> x]
Num(i) == [t |-> "num", n |-> i, s |-> ""]
Undefined == [t |-> "undef", n |-> 0, s |-> ""]
PosInfinity == [t |-> "inf", n |-> 0, s |-> ""]
Null == [t |-> "null", n |-> 0, s |-> ""]

\* A JavaScript number as a computation yields it: NaN, Infinity or a finite
\* integer.
NaN == [nan |-> TRUE, inf |-> FALSE, n |-> 0]
Inf == [nan |-> FALSE, inf |-> TRUE, n |-> 0]
Fin(i) == [nan |-> FALSE, inf |-> FALSE, n |-> i]

Digits == <<"0", "1", "2", "3", "4", "5", "6", "7", "8", "9">>

\* String(v): a string is itself, a number its decimal text.
JSString(v) ==
  CASE v.t = "str" -> v.s
    [] v.t = "num" -> Digits[v.n + 1]
    [] OTHER -> "undefined"

\* The number a string spells, NaN when it spells none.
StringToNumber(s) ==
  IF \E i \in DOMAIN Digits : Digits[i] = s
  THEN Fin((CHOOSE i \in DOMAIN Digits : Digits[i] = s) - 1)
  ELSE NaN

\* parseInt(v, 10)
ParseInt(v) ==
  CASE v.t = "num" -> Fin(v.n)
    [] v.t = "str" -> StringToNumber(v.s)
    [] OTHER -> NaN

\* Number(v): null is 0, undefined is NaN.
ToNumber(v) ==
  CASE v.t = "num" -> Fin(v.n)
    [] v.t = "str" -> StringToNumber(v.s)
    [] v.t = "inf" -> Inf
    [] v.t = "null" -> Fin(0)
    [] OTHER -> NaN

\* x || d for a finite or NaN number x: NaN and 0 are falsy.
OrElse(x, d) == IF x.nan \/ x.n = 0 THEN d ELSE x.n

\* x || 0 as a value: Infinity is truthy and stays.
OrZero(x) == IF x.inf THEN PosInfinity ELSE Num(OrElse(x, 0))

\* item.id === productId: no coercion, a stored id is always a string.
StrictEq(itemId, v) == v.t = "str" /\ v.s = itemId

\* The argument values the calls are made with: the products a page offers
\* (one with a negative price, one whose price attribute reads Infinity, one
\* whose id is a number and whose price is no number), the ids and the
\* quantities.
Product(id, name, price) == [id |-> id, name |-> name, price |-> price]
ProductArgs ==
  {Product(Str("a"), Str("Lamp"), Num(3)),
   Product(Str("b"), Str("Vase"), Num(-2)),
   Product(Str("b"), Str("Vase"), PosInfinity),
   Product(Num(7), Str("Clock"), Str("abc"))}
IdArgs == {p.id : p \in ProductArgs}
QtyArgs == {Undefined, Num(-1), Num(0), Num(1), Num(2)}

\* ------------------------------------------------------ storage and carts
\* What localStorage holds under STORAGE_KEY: nothing, the empty string, text
\* that is no JSON, or the JSON text of null, a number, an object or an array
\* of items. A value in memory has the same shape.
Payload(k) == [k |-> k, items |-> <<>>]
Cart(items) == [k |-> "array", items |-> items]
EmptyCart == Cart(<<>>)
IsArray(v) == v.k = "array"

\* JSON.stringify of a number: a number that is not finite is written null.
JSONNumber(v) == IF v.t = "inf" THEN Null ELSE v

\* JSON.stringify(value): the text of the value; strings and finite numbers
\* are written as they are (a quantity is always a finite integer).
JSONStringify(v) ==
  [k |-> v.k,
   items |-> [i \in 1..Len(v.items) |->
                [id |-> v.items[i].id, name |-> v.items[i].name,
                 price |-> JSONNumber(v.items[i].price),
                 qty |-> v.items[i].qty]]]

\* JSON.parse(raw) throws on text that is no JSON.
JSONParseThrows(raw) == raw.k \in {"empty", "garbage"}
JSONParse(raw) == [k |-> raw.k, items |-> raw.items]

\* getCart() without its try/catch: the parse error reaches the caller.
GetCartUncaught(store) ==
  IF store.k \in {"absent", "empty"} THEN EmptyCart
  ELSE IF JSONParseThrows(store) THEN Payload("throw")
  ELSE JSONParse(store)

\* getCart(): [] for a missing or empty raw value and for a parse error,
\* else whatever the text parses to.
GetCart(store) ==
  IF store.k \in {"absent", "empty"} THEN EmptyCart
  ELSE IF JSONParseThrows(store) THEN EmptyCart
  ELSE JSONParse(store)

\* ------------------------------------------------------------ return values
RetUndefined == [k |-> "undefined", items |-> <<>>, n |-> 0]
RetThrow == [k |-> "throw", items |-> <<>>, n |-> 0]
RetValue(v) == [k |-> v.k, items |-> v.items, n |-> 0]
RetNumber(i) == [k |-> "total", items |-> <<>>, n |-> i]
NoEvent == Payload("none")

\* The outcome of a call: the storage after it, the effects in order, the
\* value returned (or the throw) and the cart of the last notification.
Outcome(store, effects, r, ev) ==
  [store |-> store, log |-> effects, ret |-> r, event |-> ev]

RECURSIVE SumQty(_)
SumQty(items) ==
  IF items = <<>> THEN 0
  ELSE OrElse(Fin(Head(items).qty), 0) + SumQty(Tail(items))

RECURSIVE SumTotal(_)
SumTotal(items) ==
  IF items = <<>> THEN 0
  ELSE OrElse(ToNumber(Head(items).price), 0)
         * OrElse(Fin(Head(items).qty), 0)
       + SumTotal(Tail(items))

\* saveCart(cart) dispatching 'cart:updated' last, after the renderers.
SaveCartRendersFirst(store, cart, fail) ==
  LET s1 == IF fail THEN store ELSE JSONStringify(cart)
      readable == IsArray(GetCart(s1))
  IN [store |-> s1,
      log |-> <<"write", "badge", "reread">>
              \o (IF readable
                  THEN <<"sidebar", "reread", "reread", "notify", "reread">>
                  ELSE <<>>),
      threw |-> ~readable,
      event |-> cart]

\* saveCart(cart) dispatching 'cart:updated' before the setItem attempt: the
\* listeners run between the caller's read and the write.
SaveCartNotifiesFirst(store, cart, fail) ==
  LET s1 == IF fail THEN store ELSE JSONStringify(cart)
      readable == IsArray(GetCart(s1))
  IN [store |-> s1,
      log |-> <<"notify", "reread", "write", "badge", "reread">>
              \o (IF readable THEN <<"sidebar", "reread", "reread">>
                  ELSE <<>>),
      threw |-> ~readable,
      event |-> cart]

\* saveCart(cart): one setItem attempt (a failure is caught), then the
\* 'cart:updated' event, on which the badge updater of main.js reads storage
\* again, then renderCartIcon and renderCartSidebar, which read the cart back
\* from storage too; reduce on a value that is no array throws.
SaveCart(store, cart, fail) ==
  LET s1 == IF fail THEN store ELSE JSONStringify(cart)
      readable == IsArray(GetCart(s1))
  IN [store |-> s1,
      log |-> <<"write", "notify", "reread", "badge", "reread">>
              \o (IF readable THEN <<"sidebar", "reread", "reread">>
                  ELSE <<>>),
      threw |-> ~readable,
      event |-> cart]

\* Index of the first item whose id is strictly equal to productId, 0 if none.
FindExisting(items, productId) ==
  IF \E i \in 1..Len(items) : StrictEq(items[i].id, productId)
  THEN CHOOSE i \in 1..Len(items) :
         /\ StrictEq(items[i].id, productId)
         /\ \A j \in 1..(i - 1) : ~StrictEq(items[j].id, productId)
  ELSE 0

\* The add of addToCart and addItem with unshift in place of push: a new item
\* goes to the front.
AddedInFront(items, productId, name, price, qty) ==
  LET i == FindExisting(items, productId)
  IN IF i > 0
     THEN [items EXCEPT ![i].qty = OrElse(Fin(@), 1) + qty]
     ELSE <<[id |-> JSString(productId), name |-> JSString(name),
             price |-> OrZero(ToNumber(price)), qty |-> qty]>> \o items

\* The cart after the add of addToCart and addItem.
Added(items, productId, name, price, qty) ==
  LET i == FindExisting(items, productId)
  IN IF i > 0
     THEN [items EXCEPT ![i].qty = OrElse(Fin(@), 1) + qty]
     ELSE Append(items, [id |-> JSString(productId), name |-> JSString(name),
                         price |-> OrZero(ToNumber(price)), qty |-> qty])

\* addItem(productId, name, price, qty)
AddItem(store, productId, name, price, qty, fail) ==
  LET q == OrElse(ParseInt(qty), 1)
      cart == GetCart(store)
  IN IF ~IsArray(cart)
     THEN Outcome(store, <<"read">>, RetThrow, NoEvent)
     ELSE LET new == Cart(Added(cart.items, productId, name, price, q))
              s == SaveCart(store, new, fail)
          IN Outcome(s.store, <<"read">> \o s.log,
                     IF s.threw THEN RetThrow ELSE RetValue(new), s.event)

\* addToCart(productId, name, price)
AddToCart(store, productId, name, price, fail) ==
  LET cart == GetCart(store)
  IN IF ~IsArray(cart)
     THEN Outcome(store, <<"read">>, RetThrow, NoEvent)
     ELSE LET new == Cart(Added(cart.items, productId, name, price, 1))
              s == SaveCart(store, new, fail)
          IN IF s.threw
             THEN Outcome(s.store, <<"read">> \o s.log, RetThrow, s.event)
             ELSE Outcome(s.store, <<"read">> \o s.log \o <<"open">>,
                          RetUndefined, s.event)


\* removeFromCart(productId): filter on a value that is no array throws.
RemoveFromCart(store, productId, fail) ==
  LET cart == GetCart(store)
  IN IF ~IsArray(cart)
     THEN Outcome(store, <<"read">>, RetThrow, NoEvent)
     ELSE LET keep(item) == ~StrictEq(item.id, productId)
              s == SaveCart(store, Cart(SelectSeq(cart.items, keep)), fail)
          IN Outcome(s.store, <<"read">> \o s.log,
                     IF s.threw THEN RetThrow ELSE RetUndefined, s.event)

\* removeItem(productId): removeFromCart, then the cart read back from storage.
RemoveItem(store, productId, fail) ==
  LET r == RemoveFromCart(store, productId, fail)
  IN IF r.ret = RetThrow THEN r
     ELSE Outcome(r.store, r.log \o <<"read">>, RetValue(GetCart(r.store)),
                  r.event)

\* The cart after the quantity assignment of updateQuantity.
WithQuantity(items, productId, q) ==
  LET i == FindExisting(items, productId)
  IN IF i > 0 THEN [items EXCEPT ![i].qty = q] ELSE items

\* updateQuantity without its qty === 0 branch: 0 is assigned like any qty.
UpdateQuantityAssignsZero(store, productId, qty, fail) ==
  LET q == ParseInt(qty)
      cart == GetCart(store)
  IN IF q.nan \/ q.n < 0 THEN Outcome(store, <<>>, RetUndefined, NoEvent)
     ELSE IF cart.k = "null" THEN Outcome(store, <<"read">>, RetThrow, NoEvent)
     ELSE LET new == IF IsArray(cart)
                     THEN Cart(WithQuantity(cart.items, productId, q.n))
                     ELSE cart
              s == SaveCart(store, new, fail)
          IN Outcome(s.store, <<"read">> \o s.log,
                     IF s.threw THEN RetThrow ELSE RetUndefined, s.event)

\* updateQuantity(productId, qty): returns at once on NaN and on a negative
\* qty, removes on 0; the loop reads cart.length, which throws on null and is
\* undefined on a number or an object, which are then saved back as they are.
UpdateQuantity(store, productId, qty, fail) ==
  LET q == ParseInt(qty)
      cart == GetCart(store)
  IN IF q.nan \/ q.n < 0 THEN Outcome(store, <<>>, RetUndefined, NoEvent)
     ELSE IF q.n = 0 THEN RemoveFromCart(store, productId, fail)
     ELSE IF cart.k = "null" THEN Outcome(store, <<"read">>, RetThrow, NoEvent)
     ELSE LET new == IF IsArray(cart)
                     THEN Cart(WithQuantity(cart.items, productId, q.n))
                     ELSE cart
              s == SaveCart(store, new, fail)
          IN Outcome(s.store, <<"read">> \o s.log,
                     IF s.threw THEN RetThrow ELSE RetUndefined, s.event)

\* clearCart() saving the cart it read instead of [].
ClearCartSavesCart(store, fail) ==
  LET s == SaveCart(store, GetCart(store), fail)
  IN Outcome(s.store, s.log, IF s.threw THEN RetThrow ELSE RetUndefined,
             s.event)

\* clearCart()
ClearCart(store, fail) ==
  LET s == SaveCart(store, EmptyCart, fail)
  IN Outcome(s.store, s.log, IF s.threw THEN RetThrow ELSE RetUndefined,
             s.event)

\* calculateTotal() with the reduce of totalItems: the quantities are summed
\* and the prices are left out.
CalculateTotalOfQuantities(store) ==
  LET cart == GetCart(store)
  IN IF ~IsArray(cart) THEN Outcome(store, <<"read">>, RetThrow, NoEvent)
     ELSE Outcome(store, <<"read">>, RetNumber(SumQty(cart.items)), NoEvent)

\* calculateTotal()
CalculateTotal(store) ==
  LET cart == GetCart(store)
  IN IF ~IsArray(cart) THEN Outcome(store, <<"read">>, RetThrow, NoEvent)
     ELSE Outcome(store, <<"read">>, RetNumber(SumTotal(cart.items)), NoEvent)

\* totalItems()
TotalItems(store) ==
  LET cart == GetCart(store)
  IN IF ~IsArray(cart) THEN Outcome(store, <<"read">>, RetThrow, NoEvent)
     ELSE Outcome(store, <<"read">>, RetNumber(SumQty(cart.items)), NoEvent)

\* getCart() as a call of the public API.
GetCartCall(store) ==
  Outcome(store, <<"read">>, RetValue(GetCart(store)), NoEvent)

\* initCheckout() without the return after the notice: the summary follows it.
InitCheckoutFallsThrough(store) ==
  LET cart == GetCart(store)
  IN IF ~IsArray(cart) THEN Outcome(store, <<"read">>, RetThrow, NoEvent)
     ELSE IF Len(cart.items) = 0
     THEN Outcome(store, <<"read", "alert-empty", "read", "alert-summary">>,
                  RetUndefined, NoEvent)
     ELSE Outcome(store, <<"read", "read", "alert-summary">>, RetUndefined,
                  NoEvent)

\* initCheckout(): the notice on an empty cart, else one summary whose total
\* is read again from storage; length or map on a value that is no array throws.
InitCheckout(store) ==
  LET cart == GetCart(store)
  IN IF ~IsArray(cart) THEN Outcome(store, <<"read">>, RetThrow, NoEvent)
     ELSE IF Len(cart.items) = 0
     THEN Outcome(store, <<"read", "alert-empty">>, RetUndefined, NoEvent)
     ELSE Outcome(store, <<"read", "read", "alert-summary">>, RetUndefined,
                  NoEvent)

\* ------------------------------------------------------- sidebar controls
\* The data-id attributes of the sidebar buttons: the ids as text.
ButtonIds == {Str(JSString(x)) : x \in IdArgs}

\* Click on a quantity button (step -1 for dec, +1 for inc): the handler reads
\* the cart, looks the id up and calls updateQuantity with the item's quantity
\* changed by step; cart.length throws on null.
ClickQty(store, id, step, fail) ==
  LET cart == GetCart(store)
      i == FindExisting(cart.items, id)
  IN IF cart.k = "null" THEN Outcome(store, <<"peek">>, RetThrow, NoEvent)
     ELSE IF i = 0 THEN Outcome(store, <<"peek">>, RetUndefined, NoEvent)
     ELSE LET r == UpdateQuantity(store, id, Num(cart.items[i].qty + step),
                                  fail)
          IN Outcome(r.store, <<"peek">> \o r.log, r.ret, r.event)

\* Click on a remove button: removeFromCart with the button's data-id.
ClickRemove(store, id, fail) == RemoveFromCart(store, id, fail)

\* ------------------------------------------------------------------ badge
\* The badge text: the count, or '99+' above BadgeCap.
BadgeCap == 99
DisplayText(count) ==
  IF count > BadgeCap THEN [plus |-> TRUE, n |-> BadgeCap]
  ELSE [plus |-> FALSE, n |-> count]

\* A .nav-cart__count element as the page's markup has it: no inline display,
\* not hidden.
Markup == [text |-> DisplayText(0), display |-> "", hidden |-> FALSE]

\* renderCartIcon() of cart.js: text and inline display from totalItems(),
\* which throws on a value that is no array.
RenderCartIcon(b, store) ==
  LET cart == GetCart(store)
      count == SumQty(cart.items)
  IN IF ~IsArray(cart) THEN b
     ELSE [b EXCEPT !.text = DisplayText(count),
                    !.display = IF count > 0 THEN "flex" ELSE "none"]

\* The reduce of main.js: sum + (item.qty || 1).
RECURSIVE BadgeTotal(_)
BadgeTotal(items) ==
  IF items = <<>> THEN 0
  ELSE OrElse(Fin(Head(items).qty), 1) + BadgeTotal(Tail(items))

\* update() of initCartBadge in main.js: [] for a missing or empty raw value
\* and for a parse error; reduce on a value that is no array throws and leaves
\* the badge as it is; else text and the hidden property from the total.
CartBadgeUpdate(b, store) ==
  LET cart == IF store.k \in {"absent", "empty"} \/ JSONParseThrows(store)
              THEN EmptyCart ELSE JSONParse(store)
      total == BadgeTotal(cart.items)
  IN IF ~IsArray(cart) THEN b
     ELSE [b EXCEPT !.text = DisplayText(total), !.hidden = (total = 0)]

\* The badge after the effects of a call, in their order: the listener of
\* main.js runs on the notification, renderCartIcon where the call renders.
RECURSIVE Rendered(_, _, _)
Rendered(b, store, effects) ==
  IF effects = <<>> THEN b
  ELSE Rendered(CASE Head(effects) = "notify" -> CartBadgeUpdate(b, store)
                  [] Head(effects) = "badge" -> RenderCartIcon(b, store)
                  [] OTHER -> b,
                store, Tail(effects))

\* Whether the element shows: an inline display of none hides it, an inline
\* display of flex shows it, and without inline display the hidden property
\* decides.
Visible(b) == b.display = "flex" \/ (b.display = "" /\ ~b.hidden)

\* ---------------------------------------------------------------- state
VARIABLES
  storage,  \* the payload under STORAGE_KEY
  pre,      \* the payload before the call that last ran
  call,     \* the call that last ran: operation and arguments
  log,      \* the effects of that call, in order
  ret,      \* what that call returned
  event,    \* the cart carried by that call's notification
  adds,     \* per id: the adds made to it since it was absent, and their sum
  badge,    \* the .nav-cart__count element: text, inline display, hidden
  hook,     \* the call a 'cart:updated' listener made during that call
  recording \* whether the adds are recorded in adds

vars == <<storage, pre, call, log, ret, event, adds, badge, hook, recording>>

TheCall(op, id, name, price, qty, fail) ==
  [op |-> op, id |-> id, name |-> name, price |-> price, qty |-> qty,
   fail |-> fail]
NoCall == TheCall("none", Undefined, Undefined, Undefined, Undefined, FALSE)

\* The call c made on storage store: an operation of window.MeridianCart or a
\* click on a sidebar button.
Run(c, store) ==
  CASE c.op = "addItem" ->
         AddItem(store, c.id, c.name, c.price, c.qty, c.fail)
    [] c.op = "addToCart" -> AddToCart(store, c.id, c.name, c.price, c.fail)
    [] c.op = "removeFromCart" -> RemoveFromCart(store, c.id, c.fail)
    [] c.op = "removeItem" -> RemoveItem(store, c.id, c.fail)
    [] c.op = "updateQuantity" -> UpdateQuantity(store, c.id, c.qty, c.fail)
    [] c.op = "clearCart" -> ClearCart(store, c.fail)
    [] c.op = "getCart" -> GetCartCall(store)
    [] c.op = "calculateTotal" -> CalculateTotal(store)
    [] c.op = "totalItems" -> TotalItems(store)
    [] c.op = "initCheckout" -> InitCheckout(store)
    [] c.op = "clickDec" -> ClickQty(store, c.id, -1, c.fail)
    [] c.op = "clickInc" -> ClickQty(store, c.id, 1, c.fail)
    [] c.op = "clickRemove" -> ClickRemove(store, c.id, c.fail)
    [] OTHER -> Outcome(store, <<>>, RetUndefined, NoEvent)

InBounds(store) ==
  /\ Len(store.items) <= MaxItems
  /\ \A i \in 1..Len(store.items) :
       store.items[i].qty >= MinQty /\ store.items[i].qty <= MaxQty

\* Whether the cart in storage holds an item whose id is the text of id.
Holds(store, id) ==
  \E i \in 1..Len(GetCart(store).items) :
    GetCart(store).items[i].id = JSString(id)

\* The qty argument as the caller means it: an omitted one is 1.
MeantQty(qty) == IF qty.t = "num" THEN qty.n ELSE 1

NoAdds == [on |-> FALSE, sum |-> 0]

\* The quantities of the items in storage whose id is the text of id.
QtysOf(store, id) ==
  LET items == GetCart(store).items
      mine(item) == item.id = JSString(id)
      own == SelectSeq(items, mine)
  IN [i \in 1..Len(own) |-> own[i].qty]

\* The record of the adds after call c with outcome r: an add that went
\* through starts a run on an absent id and extends a run whose sum is the
\* quantity in storage; any other change to the id, a throw, a failed write
\* and a qty of 0 (which addItem reads as 1) end the run.
AddsAfter(c, r) ==
  [x \in IdArgs |->
     IF ~recording
        \/ c.op \in {"getCart", "calculateTotal", "totalItems", "initCheckout"}
     THEN adds[x]
     ELSE IF r.ret = RetThrow \/ c.fail \/ c.qty = Num(0) THEN NoAdds
     ELSE IF c.op \in {"addItem", "addToCart"} /\ c.id = x
     THEN IF adds[x].on /\ QtysOf(storage, x) = <<adds[x].sum>>
          THEN [on |-> TRUE, sum |-> adds[x].sum + MeantQty(c.qty)]
          ELSE IF ~Holds(storage, x)
          THEN [on |-> TRUE, sum |-> MeantQty(c.qty)]
          ELSE NoAdds
     ELSE IF c.op = "clearCart" \/ JSString(c.id) = JSString(x) THEN NoAdds
     ELSE adds[x]]

\* A call made from the event loop and run to completion, with outcome r.
Do(c, r) ==
  /\ call = NoCall
  /\ \E o \in {r} :
       /\ InBounds(o.store)
       /\ storage' = o.store
       /\ pre' = storage
       /\ call' = c
       /\ log' = o.log
       /\ ret' = o.ret
       /\ event' = o.event
       /\ adds' = AddsAfter(c, o)
       /\ badge' = Rendered(badge, o.store, o.log)
       /\ hook' = NoCall
       /\ UNCHANGED recording

InitPayloads ==
  {Payload("absent"), Payload("empty"), Payload("garbage"), Payload("null"),
   Payload("number"), Payload("object"), EmptyCart}

Init ==
  /\ storage \in InitPayloads
  /\ pre = storage
  /\ call = NoCall
  /\ log = <<>>
  /\ ret = RetUndefined
  /\ event = NoEvent
  /\ adds = [x \in IdArgs |-> NoAdds]
  /\ badge = RenderCartIcon(CartBadgeUpdate(Markup, storage), storage)
  /\ hook = NoCall
  /\ recording = FALSE

CallAddItem ==
  \E p \in ProductArgs, qty \in QtyArgs, fail \in BOOLEAN :
    Do(TheCall("addItem", p.id, p.name, p.price, qty, fail),
       AddItem(storage, p.id, p.name, p.price, qty, fail))

CallAddToCart ==
  \E p \in ProductArgs, fail \in BOOLEAN :
    Do(TheCall("addToCart", p.id, p.name, p.price, Undefined, fail),
       AddToCart(storage, p.id, p.name, p.price, fail))

CallRemoveFromCart ==
  \E id \in IdArgs, fail \in BOOLEAN :
    Do(TheCall("removeFromCart", id, Undefined, Undefined, Undefined, fail),
       RemoveFromCart(storage, id, fail))

CallRemoveItem ==
  \E id \in IdArgs, fail \in BOOLEAN :
    Do(TheCall("removeItem", id, Undefined, Undefined, Undefined, fail),
       RemoveItem(storage, id, fail))

CallUpdateQuantity ==
  \E id \in IdArgs, qty \in QtyArgs, fail \in BOOLEAN :
    Do(TheCall("updateQuantity", id, Undefined, Undefined, qty, fail),
       UpdateQuantity(storage, id, qty, fail))

CallClearCart ==
  \E fail \in BOOLEAN :
    Do(TheCall("clearCart", Undefined, Undefined, Undefined, Undefined, fail),
       ClearCart(storage, fail))

CallGetCart ==
  Do(TheCall("getCart", Undefined, Undefined, Undefined, Undefined, FALSE),
     GetCartCall(storage))

CallCalculateTotal ==
  Do(TheCall("calculateTotal", Undefined, Undefined, Undefined, Undefined,
             FALSE),
     CalculateTotal(storage))

CallTotalItems ==
  Do(TheCall("totalItems", Undefined, Undefined, Undefined, Undefined, FALSE),
     TotalItems(storage))

CallInitCheckout ==
  Do(TheCall("initCheckout", Undefined, Undefined, Undefined, Undefined,
             FALSE),
     InitCheckout(storage))

\* The sidebar holds the buttons of the items of the cart it last rendered.
HasButton(id) ==
  \E i \in 1..Len(GetCart(storage).items) :
    GetCart(storage).items[i].id = id.s

ClickDec ==
  \E id \in ButtonIds, fail \in BOOLEAN :
    HasButton(id) /\
    Do(TheCall("clickDec", id, Undefined, Undefined, Undefined, fail),
       ClickQty(storage, id, -1, fail))

ClickInc ==
  \E id \in ButtonIds, fail \in BOOLEAN :
    HasButton(id) /\
    Do(TheCall("clickInc", id, Undefined, Undefined, Undefined, fail),
       ClickQty(storage, id, 1, fail))

ClickRemoveButton ==
  \E id \in ButtonIds, fail \in BOOLEAN :
    HasButton(id) /\
    Do(TheCall("clickRemove", id, Undefined, Undefined, Undefined, fail),
       ClickRemove(storage, id, fail))

\* The call has returned to the event loop: its locals, its return value and
\* its event object are gone, storage stays.
Return ==
  /\ call # NoCall
  /\ pre' = storage
  /\ call' = NoCall
  /\ log' = <<>>
  /\ ret' = RetUndefined
  /\ event' = NoEvent
  /\ hook' = NoCall
  /\ UNCHANGED <<storage, adds, badge, recording>>

Next ==
  \/ CallAddItem
  \/ CallAddToCart
  \/ CallRemoveFromCart
  \/ CallRemoveItem
  \/ CallUpdateQuantity
  \/ CallClearCart
  \/ CallGetCart
  \/ CallCalculateTotal
  \/ CallTotalItems
  \/ CallInitCheckout
  \/ ClickDec
  \/ ClickInc
  \/ ClickRemoveButton
  \/ Return

Spec == Init /\ [][Next]_vars

\* The same page with the adds to each id recorded.
InitRecording ==
  /\ storage \in InitPayloads
  /\ pre = storage
  /\ call = NoCall
  /\ log = <<>>
  /\ ret = RetUndefined
  /\ event = NoEvent
  /\ adds = [x \in IdArgs |-> NoAdds]
  /\ badge = RenderCartIcon(CartBadgeUpdate(Markup, storage), storage)
  /\ hook = NoCall
  /\ recording = TRUE

SpecRecording == InitRecording /\ [][Next]_vars

\* The changes another tab running the same script makes to the key.
TabCalls ==
  {TheCall("addToCart", p.id, p.name, p.price, Undefined, FALSE) :
     p \in ProductArgs}
  \cup {TheCall("removeFromCart", id, Undefined, Undefined, Undefined, FALSE) :
          id \in ButtonIds}
  \cup {TheCall("clearCart", Undefined, Undefined, Undefined, Undefined, FALSE)}

\* A 'storage' event: another tab has changed the key, and of this page only
\* the badge updater of main.js listens.
StorageEvent ==
  /\ call = NoCall
  /\ \E c \in TabCalls :
       LET r == Run(c, storage)
       IN /\ r.store # storage
          /\ InBounds(r.store)
          /\ storage' = r.store
          /\ pre' = r.store
          /\ adds' = [x \in IdArgs |-> NoAdds]
          /\ badge' = CartBadgeUpdate(badge, r.store)
  /\ UNCHANGED <<call, log, ret, event, hook, recording>>

NextTabs ==
  \/ Next
  \/ StorageEvent

SpecTabs == Init /\ [][NextTabs]_vars

\* The calls a one-shot 'cart:updated' listener makes from inside saveCart.
ListenerCalls ==
  {TheCall("addToCart", Str("a"), Str("Lamp"), Num(3), Undefined, FALSE),
   TheCall("removeFromCart", Str("b"), Undefined, Undefined, Undefined, FALSE),
   TheCall("clearCart", Undefined, Undefined, Undefined, Undefined, FALSE)}

\* Call c with outcome r on storage store, with a one-shot listener whose
\* call has outcome inner: the listener's call runs to completion inside
\* dispatchEvent, and what c does after the dispatch (a write, the renderers)
\* follows it. The effects of the listener's call lie between "enter" and
\* "leave".
NotifyAt(effects) == CHOOSE i \in 1..Len(effects) : effects[i] = "notify"
WrittenAtNotify(effects) ==
  \E w \in 1..NotifyAt(effects) : effects[w] = "write"
Reentrant(c, r, inner) ==
  Outcome(IF WrittenAtNotify(r.log) \/ c.fail THEN inner.store ELSE r.store,
          SubSeq(r.log, 1, NotifyAt(r.log)) \o <<"enter">> \o inner.log
            \o <<"leave">> \o SubSeq(r.log, NotifyAt(r.log) + 1, Len(r.log)),
          r.ret, r.event)

CallWithListener ==
  /\ call = NoCall
  /\ IsArray(GetCart(storage))
  /\ \E c \in TabCalls, h \in ListenerCalls :
       \E r \in {Run(c, storage)} :
         \E inner \in {Run(h, IF WrittenAtNotify(r.log) THEN r.store
                              ELSE storage)} :
           \E o \in {Reentrant(c, r, inner)} :
             /\ InBounds(r.store)
             /\ InBounds(o.store)
             /\ storage' = o.store
             /\ pre' = storage
             /\ call' = c
             /\ hook' = h
             /\ log' = o.log
             /\ ret' = o.ret
             /\ event' = o.event
             /\ adds' = [x \in IdArgs |-> NoAdds]
             /\ badge' = Rendered(badge, o.store, o.log)
             /\ UNCHANGED recording

NextListener ==
  \/ Next
  \/ CallWithListener

SpecListener == Init /\ [][NextListener]_vars

\* ---------------------------------------------------------------- claims
Mutating ==
  {"addItem", "addToCart", "removeFromCart", "removeItem", "updateQuantity",
   "clearCart"}

Count(seq, e) == Cardinality({i \in 1..Len(seq) : seq[i] = e})
Positions(seq, e) == {i \in 1..Len(seq) : seq[i] = e}

\* C1: after any sequence of add, remove, setQuantity and clear calls the
\* persisted cart holds at most one item per distinct id.
C1_OneItemPerId ==
  \A i, j \in 1..Len(storage.items) :
    storage.items[i].id = storage.items[j].id => i = j

\* C2: after any sequence of calls with integer qty arguments every item of
\* the persisted cart has a quantity of at least 1.
C2_QuantityAtLeastOne ==
  \A i \in 1..Len(storage.items) : storage.items[i].qty >= 1

\* C3: after a run of add calls on one id that started on a cart without the
\* id (every write having succeeded, no qty being 0), the cart holds one item
\* of that id and its quantity is the sum of the qty arguments, an omitted
\* qty counting as 1.
C3_QuantityIsSumOfAdds ==
  \A x \in IdArgs : adds[x].on => QtysOf(storage, x) = <<adds[x].sum>>

\* C4: right after remove(id) whose write succeeded, the cart that get()
\* returns holds no item with that id, and neither does the cart that
\* removeItem(id) returned.
C4_RemovedIdIsGone ==
  (call.op \in {"removeFromCart", "removeItem"} /\ ~call.fail) =>
    /\ ~Holds(storage, call.id)
    /\ call.op = "removeItem" =>
         \A i \in 1..Len(ret.items) : ret.items[i].id # JSString(call.id)

\* C5: setQuantity(id, qty) with an integer qty <= 0 on a cart that holds id
\* leaves storage as remove(id) does and writes and notifies as remove(id)
\* does.
C5_NonPositiveQuantityRemoves ==
  (call.op = "updateQuantity" /\ call.qty.t = "num" /\ call.qty.n <= 0
   /\ Holds(pre, call.id)) =>
    LET r == RemoveFromCart(pre, call.id, call.fail)
    IN storage = r.store /\ log = r.log /\ event = r.event

\* C6: setQuantity(id, 0) and remove(id) applied to the same cart leave the
\* same persisted cart: same items, same quantities, same order.
C6_ZeroQuantityIsRemove ==
  (call.op = "updateQuantity" /\ call.qty = Num(0)) =>
    storage = RemoveFromCart(pre, call.id, call.fail).store

\* C6 witness: setQuantity(id, 0) has removed an item and left another one.
C6_Witness ==
  /\ call.op = "updateQuantity" /\ call.qty = Num(0)
  /\ Holds(pre, call.id) /\ ~Holds(storage, call.id)
  /\ Len(pre.items) = 2 /\ Len(storage.items) = 1

\* C7: every call of a mutating operation with an integer qty on a stored
\* cart attempts exactly one write and, after it, emits exactly one
\* notification and invokes the badge and the sidebar renderer.
C7_OneWriteThenNotifyAndRender ==
  (call.op \in Mutating /\ IsArray(GetCart(pre))
   /\ (call.op = "updateQuantity" => call.qty.t = "num")) =>
    /\ Count(log, "write") = 1
    /\ Count(log, "notify") = 1
    /\ Count(log, "badge") = 1
    /\ Count(log, "sidebar") = 1
    /\ \A w \in Positions(log, "write") :
         \A e \in {"notify", "badge", "sidebar"} :
           \A i \in Positions(log, e) : w < i

\* C8: when the write fails during a mutating operation on a stored cart, the
\* call does not throw, storage stays as it was, and the cart the call returns
\* and the cart of its notification are the cart a successful write would
\* have stored.
C8_FailedWriteKeepsMutation ==
  (call.op \in Mutating /\ call.fail /\ IsArray(GetCart(pre))
   /\ Count(log, "write") = 1) =>
    LET ok == Run([call EXCEPT !.fail = FALSE], pre)
    IN /\ ret # RetThrow
       /\ storage = pre
       /\ event = GetCart(ok.store)
       /\ call.op \in {"addItem", "removeItem"} =>
            ret = RetValue(GetCart(ok.store))

\* C9: get() returns the empty cart and raises no error when the key is
\* missing or its payload is text that cannot be parsed.
C9_GetIsEmptyOnMissingOrMalformed ==
  (call.op = "getCart" /\ pre.k \in {"absent", "empty", "garbage"}) =>
    ret = RetValue(EmptyCart)

\* C9 witness: get() has run on a payload that cannot be parsed.
C9_Witness ==
  call.op = "getCart" /\ pre.k = "garbage" /\ ret.k = "array"

\* C10: on every payload, a list of items or not, no call throws, and on a
\* payload that is no list of items a call returns and notifies as it does on
\* a missing key.
C10_NoOperationIsFatal ==
  call # NoCall =>
    /\ ret # RetThrow
    /\ ~IsArray(JSONParse(pre)) =>
         LET e == Run(call, Payload("absent"))
         IN ret = e.ret /\ event = e.event

\* The sum of unit price times quantity over items whose prices are numbers.
RECURSIVE LineSum(_)
LineSum(items) ==
  IF items = <<>> THEN 0
  ELSE Head(items).price.n * Head(items).qty + LineSum(Tail(items))

PricesAreNumbers(items) ==
  \A i \in 1..Len(items) : items[i].price.t = "num"

\* C11: on a persisted cart whose prices are integers total() returns the sum
\* of unit price times quantity over its items, writes nothing and leaves
\* storage as it was, so that a second total() right after it returns the
\* same value.
C11_TotalIsSumAndReadsOnly ==
  (call.op = "calculateTotal" /\ IsArray(GetCart(pre))
   /\ PricesAreNumbers(GetCart(pre).items)) =>
    /\ ret = RetNumber(LineSum(GetCart(pre).items))
    /\ storage = pre
    /\ Count(log, "write") = 0
    /\ event = NoEvent
    /\ CalculateTotal(storage).ret = ret

\* C11 witness: total() has returned a sum other than 0 over two items.
C11_Witness ==
  /\ call.op = "calculateTotal"
  /\ Len(pre.items) = 2
  /\ PricesAreNumbers(pre.items)
  /\ pre.items[1].price.n # 0 /\ pre.items[2].price.n # 0
  /\ ret.k = "total" /\ ret.n > 0

\* C12: the cart a mutating call has built and persisted with a successful
\* write is the cart that get() then reads back: same ids, names, prices and
\* quantities in the same order.
C12_RoundTrip ==
  (call.op \in Mutating /\ ~call.fail /\ Count(log, "write") = 1
   /\ IsArray(event)) =>
    GetCart(storage) = event

\* What get(), itemCount() and total() yield on an empty cart.
ReadsAsEmpty(store) ==
  /\ GetCartCall(store).ret = RetValue(EmptyCart)
  /\ TotalItems(store).ret = RetNumber(0)
  /\ CalculateTotal(store).ret = RetNumber(0)

C14_PriceIsNonNegativeNumber ==
  /\ \A i \in 1..Len(storage.items) :
       storage.items[i].price.t = "num" => storage.items[i].price.n >= 0
  /\ (call.op \in {"addItem", "addToCart"} /\ ~call.fail
      /\ ToNumber(call.price).nan /\ IsArray(GetCart(pre))
      /\ FindExisting(GetCart(pre).items, call.id) = 0) =>
       storage.items[Len(storage.items)].price = Num(0)

\* C15: initCheckout() on a cart leaves storage as it was, writes nothing and
\* emits no notification; on the empty cart it shows the empty-cart notice
\* and no order summary, on any other cart exactly one order summary and no
\* notice.
C15_CheckoutChangesNothing ==
  (call.op = "initCheckout" /\ IsArray(GetCart(pre))) =>
    /\ storage = pre
    /\ Count(log, "write") = 0
    /\ Count(log, "notify") = 0
    /\ event = NoEvent
    /\ Count(log, "alert-empty") =
         (IF Len(GetCart(pre).items) = 0 THEN 1 ELSE 0)
    /\ Count(log, "alert-summary") =
         (IF Len(GetCart(pre).items) = 0 THEN 0 ELSE 1)

\* C15 witness: initCheckout() has shown the notice on an empty cart.
C15_Witness ==
  /\ call.op = "initCheckout"
  /\ pre = EmptyCart
  /\ Count(log, "alert-empty") = 1

\* The effects of the call itself (with the point where the listener's call
\* ran) and the effects of the listener's call.
OwnLog(seq) ==
  LET out(i) == \E e \in Positions(seq, "enter"), l \in Positions(seq, "leave") :
                  e < i /\ i <= l
  IN SelectSeq([i \in 1..Len(seq) |-> IF out(i) THEN "inner" ELSE seq[i]],
               LAMBDA x : x # "inner")
ListenerLog(seq) ==
  IF Positions(seq, "enter") = {} THEN <<>>
  ELSE SubSeq(seq, (CHOOSE e \in Positions(seq, "enter") : TRUE) + 1,
              (CHOOSE l \in Positions(seq, "leave") : TRUE) - 1)

\* The read of a call comes right before its write, nothing lies between.
Atomic(seq) ==
  \A w \in Positions(seq, "write") :
    /\ \A i \in 1..(w - 1) : seq[i] \in {"peek", "read"}
    /\ \A r \in Positions(seq, "read") : r < w => r = w - 1

\* C16: in every call that writes, the call's own read of the key comes right
\* before its write: no notification, no renderer, no call of a listener and
\* no other read or write of the key lies between them (a sidebar handler
\* reads the cart before it calls the operation); after a successful write
\* storage holds the cart the call built from what it read, and when a
\* listener made a call of its own during the notification, storage is what
\* the two calls leave when made one after the other.
C16_ReadModifyWriteIsAtomic ==
  /\ Atomic(OwnLog(log))
  /\ Atomic(ListenerLog(log))
  /\ (hook = NoCall /\ ~call.fail /\ Count(log, "write") = 1) =>
       storage = JSONStringify(event)
  /\ hook # NoCall => storage = Run(hook, Run(call, pre).store).store

\* C16 witness: a listener has added an item during the notification of an
\* add of another item, and storage holds both.
C16_Witness ==
  /\ call.op = "addToCart" /\ call.id = Str("b")
  /\ hook.op = "addToCart"
  /\ Count(log, "write") = 2
  /\ pre = EmptyCart
  /\ Len(storage.items) = 2

\* Every effect a in the sequence comes before every effect b in it.
Before(seq, a, b) ==
  \A i \in Positions(seq, a) : \A j \in Positions(seq, b) : i < j

\* C17 as stated: in every call the write comes first, then the badge and
\* the sidebar renderer, and the notification after them.
C17_PersistRenderNotify ==
  /\ Before(log, "write", "badge")
  /\ Before(log, "write", "sidebar")
  /\ Before(log, "badge", "notify")
  /\ Before(log, "sidebar", "notify")

\* C17 amended: in every call the write comes first, then the notification,
\* and only then the badge renderer and after it the sidebar renderer.
C17_PersistNotifyRender ==
  /\ Before(log, "write", "notify")
  /\ Before(log, "notify", "badge")
  /\ Before(log, "badge", "sidebar")

\* C17 witness: an add has written, notified and rendered badge and sidebar.
C17_Witness ==
  /\ call.op = "addItem"
  /\ Count(log, "write") = 1 /\ Count(log, "notify") = 1
  /\ Count(log, "badge") = 1 /\ Count(log, "sidebar") = 1
  /\ storage # pre

\* The items whose id is not the text t, in their order, and the ids in order.
Others(items, t) == SelectSeq(items, LAMBDA item : item.id # t)
Ids(items) == [i \in 1..Len(items) |-> items[i].id]

\* C18: add, remove and setQuantity on one id, applied to a stored cart,
\* leave every item of another id as it was and in the same relative order,
\* in storage and in the cart of the notification; an add of a new id that is
\* written puts the item after the items that were there; an add of an id the
\* cart holds and a setQuantity with qty > 0 keep the ids and their order;
\* remove and setQuantity of an id the cart does not hold leave the items as
\* they were.
C18_OtherItemsUntouched ==
  (call.op \in {"addItem", "addToCart", "removeFromCart", "removeItem",
                "updateQuantity"}
   /\ IsArray(GetCart(pre))) =>
    LET old == GetCart(pre).items
        now == GetCart(storage).items
        t == JSString(call.id)
        add == call.op \in {"addItem", "addToCart"}
    IN /\ Others(now, t) = Others(old, t)
       /\ IsArray(event) => Others(event.items, t) = Others(old, t)
       /\ (add /\ ~Holds(pre, call.id) /\ ~call.fail) =>
            /\ Len(now) = Len(old) + 1
            /\ SubSeq(now, 1, Len(old)) = old
            /\ now[Len(now)].id = t
       /\ (add /\ FindExisting(old, call.id) > 0) => Ids(now) = Ids(old)
       /\ (~add /\ ~Holds(pre, call.id)) => now = old
       /\ (call.op = "updateQuantity" /\ call.qty.t = "num"
           /\ call.qty.n > 0) => Ids(now) = Ids(old)

\* C18 witness: remove(id) has taken the first of two items out and left the
\* second as it was.
C18_Witness ==
  /\ call.op = "removeItem" /\ ~call.fail
  /\ Len(pre.items) = 2
  /\ pre.items[1].id = JSString(call.id)
  /\ storage.items = <<pre.items[2]>>

\* The sum of the quantities of the items.
RECURSIVE QtySum(_)
QtySum(items) ==
  IF items = <<>> THEN 0 ELSE Head(items).qty + QtySum(Tail(items))

\* C19: whenever storage holds a cart, after calls of this page and storage
\* events from another tab in any order, the .nav-cart__count badge shows
\* exactly when the sum of the persisted quantities is above 0, and its text
\* is that sum, or '99+' above 99.
C19_BadgeShowsTheCount ==
  IsArray(GetCart(storage)) =>
    /\ Visible(badge) = (QtySum(GetCart(storage).items) > 0)
    /\ badge.text = DisplayText(QtySum(GetCart(storage).items))

====
